---------------------------- MODULE Spec2Model ----------------------------
(***************************************************************************)
(* OCR micro-services of ericaezhou/tai.                                   *)
(*                                                                         *)
(* Spec      the Surya service: the shared SuryaEngine object              *)
(*           (ocr-services/surya-service/main.py), the startup hook, the   *)
(*           /ocr handlers that call SuryaEngine.predict and the /health   *)
(*           handler.  SuryaEngine holds no lock, so every read or write   *)
(*           of one of its fields by a caller is a step of its own and     *)
(*           the steps of different callers interleave freely.             *)
(* SeqSpec   the same service with the engine calls made one after the      *)
(*           other: a request enters the engine only when no other call is *)
(*           in it.                                                        *)
(* NormSpec  the result normalisation of the three /ocr handlers (Surya,   *)
(*           PaddleOCR, Pix2Text) as functions of the backend's raw        *)
(*           result.                                                       *)
(*                                                                         *)
(* Confidences are counted in hundredths (0.85 is 85); a mean is kept as   *)
(* the exact fraction num/den.  A text is a sequence of characters.        *)
(***************************************************************************)
EXTENDS Integers, Sequences, FiniteSets, TLC

(***************************************************************************)
(* Bounds                                                                  *)
(***************************************************************************)
\* Number of calls (startup hook and /ocr requests) made on the engine.
NCallers == 2

\* Largest number of line records in a raw result.
MaxLines == 2

Callers == 1..NCallers

(***************************************************************************)
(* The Surya engine: names                                                 *)
(***************************************************************************)
\* Python's None, for the fields that hold a string or None.
None == "None"

\* _init_legacy, line 79: the namespaces probed, in order.
Candidates == <<"surya", "surya_ocr">>

\* The four legacy model handles, in the order ensure_models_loaded fills them.
Handles == <<"det_model", "det_processor", "rec_model", "rec_processor">>

\* The loader behind each legacy handle (self.load_det_model, ...).
LoaderOf == <<"load_det_model", "load_det_processor", "load_rec_model", "load_rec_processor">>

\* The five entry points _init_legacy stores on the engine.
EntryPoints == {"run_ocr"} \cup {LoaderOf[i] : i \in 1..Len(LoaderOf)}

\* The five modules _init_legacy imports from a namespace (lines 81-85), and
\* the module each entry point is taken from (lines 98-102).
LegacyModules == <<"ocr", "model.detection.model", "model.detection.processor",
                   "model.recognition.model", "model.recognition.processor">>
ModuleOf == [x \in EntryPoints |->
                IF x = "run_ocr" THEN 1
                ELSE 1 + CHOOSE i \in 1..Len(LoaderOf) : LoaderOf[i] = x]

\* What is counted: calls of load_predictors, of each legacy loader, and runs
\* of the legacy import loop.
Counted == {"load_predictors", "import_legacy"} \cup {LoaderOf[i] : i \in 1..Len(LoaderOf)}

\* The calls that construct a model.
Constructors == {"load_predictors"} \cup {LoaderOf[i] : i \in 1..Len(LoaderOf)}

\* The installed environment:
\*   probe    what find_spec("surya.models") does: it finds the module, returns
\*            None, or raises (the parent package 'surya' does not import)
\*   imports  whether the imports of _init_modern (lines 53-54) succeed
\*   ns       how the import of the five legacy modules of each namespace ends:
\*            all import, one is not found, or one raises another error
\*   partial  how many legacy modules of 'surya' import before the one that is
\*            not found (it matters only where 'surya_ocr' then imports)
\* When the probe raises, no module of 'surya' imports.  The import loop reaches
\* 'surya_ocr' only when 'surya' is not found; where it is not reached its
\* outcome is left at "notfound".  An installation holding both the modern
\* surface and a legacy 'surya_ocr' behaves as one holding the modern surface
\* and the legacy modules of 'surya', and is left out.
Environments ==
    { e \in [probe   : {"present", "absent", "raises"},
             imports : BOOLEAN,
             ns      : [{"surya", "surya_ocr"} -> {"ok", "notfound", "error"}],
             partial : {0, 2}] :
        /\ e.partial # 0 => /\ e.probe # "raises"
                            /\ e.ns["surya"] = "notfound"
                            /\ e.ns["surya_ocr"] = "ok"
        /\ e.probe = "raises" => e.ns["surya"] # "ok"
        /\ e.probe # "present" => ~e.imports
        /\ e.ns["surya"] # "notfound" => e.ns["surya_ocr"] = "notfound"
        /\ e.probe = "present" => e.ns["surya_ocr"] # "ok" }

VARIABLES
    env,            \* the installed environment (fixed)
    initialized,    \* self.initialized
    mode,           \* self.mode: None, "modern" or "legacy"
    det_predictor,  \* self.det_predictor is not None
    rec_predictor,  \* self.rec_predictor is not None
    task_name,      \* self.task_name is not None
    entry,          \* the namespace each legacy entry point was taken from, or None
    handle,         \* handle[i]: the i-th legacy handle is not None
    modern_error,   \* self.modern_error is not None
    op,             \* op[p]: what caller p is: "none", "startup" or "ocr"
    pc,             \* pc[p]: where caller p is in its call
    hi,             \* hi[p]: the legacy handle caller p is at in ensure_models_loaded
    calls,          \* calls[c]: number of calls of c so far
    loadFailed,     \* some ensure_models_loaded call has raised
    sawFail,        \* sawFail[p]: p's call began after a load had failed
    settled,        \* the engine was ready at a moment when no call was in flight
    outcome,        \* how the call that ended in this step ended, "none" in other steps
    detail,         \* the errors the exception raised in this step refers to
    invoked,        \* the inference entry point called in this step, or None
    health,         \* the /health response sent in this step, if any
    raw,            \* NormSpec: the backend's raw result
    resp            \* NormSpec: the /ocr response computed from it

engineVars == <<initialized, mode, det_predictor, rec_predictor, task_name, entry,
                handle, modern_error>>
callerVars == <<op, pc, hi, sawFail>>
historyVars == <<calls, loadFailed, settled>>
normVars == <<raw, resp>>
outVars == <<outcome, detail, invoked>>
vars == <<env, engineVars, callerVars, historyVars, outVars, health, normVars>>

\* No /health response is being sent; no /ocr result is being normalised.
NoResponse == [status |-> "none", models_loaded |-> FALSE]
NoRaw == [engine |-> "none", status |-> "none"]

(***************************************************************************)
(* SuryaEngine                                                             *)
(***************************************************************************)
\* Mutant of ModelsReady: any() where the code has all().
ModelsReadyAny ==
    IF mode = "modern" THEN det_predictor /\ rec_predictor
    ELSE IF mode = "legacy" THEN \E i \in 1..Len(Handles) : handle[i]
    ELSE FALSE

\* models_ready, lines 145-151.
ModelsReady ==
    IF mode = "modern" THEN det_predictor /\ rec_predictor
    ELSE IF mode = "legacy" THEN \A i \in 1..Len(Handles) : handle[i]
    ELSE FALSE

\* Mutant of AlreadyInitialized: the early return is missing.
NeverInitialized == FALSE

\* initialize, line 37: the early return.
AlreadyInitialized == initialized

\* Mutant of ModernSpecFound: modern construction is tried whatever the probe
\* returned.
ModernAlways == TRUE

\* initialize, lines 40-41: find_spec("surya.models") is not None.
ModernSpecFound == env.probe = "present"

\* _init_legacy, lines 79-90: the namespace the import loop selects, None when
\* no namespace imports, "error" when an import raises something other than
\* ModuleNotFoundError (which the loop does not catch).
RECURSIVE ProbeLegacy(_)
ProbeLegacy(k) ==
    IF k > Len(Candidates) THEN None
    ELSE IF env.ns[Candidates[k]] = "ok" THEN Candidates[k]
    ELSE IF env.ns[Candidates[k]] = "notfound" THEN ProbeLegacy(k + 1)
    ELSE "error"

\* Mutant of Imported: a module variable that is already set is not assigned.
ImportedOnce(locals, c, n) ==
    [i \in 1..Len(LegacyModules) |-> IF i <= n /\ locals[i] = None THEN c ELSE locals[i]]

\* _init_legacy, lines 81-85: the module variables after the first n modules
\* of namespace c have been imported.
Imported(locals, c, n) ==
    [i \in 1..Len(LegacyModules) |-> IF i <= n THEN c ELSE locals[i]]

\* _init_legacy, lines 72-90: the namespace each of the five module variables
\* was imported from when the loop ends, starting at candidate k.
RECURSIVE ImportLoop(_, _)
ImportLoop(k, locals) ==
    IF k > Len(Candidates) THEN locals
    ELSE IF env.ns[Candidates[k]] = "ok"
    THEN Imported(locals, Candidates[k], Len(LegacyModules))
    ELSE IF env.ns[Candidates[k]] = "notfound"
    THEN ImportLoop(k + 1, Imported(locals, Candidates[k],
                                    IF Candidates[k] = "surya" THEN env.partial ELSE 0))
    ELSE locals

\* The history kept beside the program: whether the engine has been ready with
\* no call in flight.
Settle(ready, pcs) == settled \/ (ready /\ \A q \in Callers : pcs[q] \in {"idle", "done"})

\* Caller p moves on to l; the step sends no response, raises nothing and
\* calls no inference entry point.
Goto(p, l) ==
    /\ pc' = [pc EXCEPT ![p] = l]
    /\ outcome' = "none"
    /\ detail' = {}
    /\ invoked' = None
    /\ health' = NoResponse

\* The call of p ends with outcome r, after calling the inference entry point
\* api (or none), with an exception that refers to the errors refs (no step
\* that ends a call writes a field of the engine, so models_ready is that of
\* the state left).
End(p, r, refs, api) ==
    /\ pc' = [pc EXCEPT ![p] = "done"]
    /\ outcome' = r
    /\ detail' = refs
    /\ invoked' = api
    /\ health' = NoResponse
    /\ settled' = Settle(ModelsReady, pc')

\* The call of p ends with outcome r before any inference.
Finish(p, r) == End(p, r, {}, None)

\* Mutant of RaiseLoad: the exception is not caught by the caller.
RaiseLoadUncaught(p, refs) ==
    /\ pc' = [pc EXCEPT ![p] = "raised"]
    /\ outcome' = "crashed"
    /\ detail' = refs
    /\ invoked' = None
    /\ health' = NoResponse
    /\ settled' = settled
    /\ loadFailed' = TRUE

\* An exception that refers to the errors refs leaves ensure_models_loaded:
\* the startup hook logs it (lines 172-173), perform_ocr turns it into a 500
\* (lines 225-226).
RaiseLoad(p, refs) ==
    /\ End(p, IF op[p] = "startup" THEN "startup_warned" ELSE "load_error", refs, None)
    /\ loadFailed' = TRUE

Count(c) == calls' = [calls EXCEPT ![c] = @ + 1]

\* The startup hook, lines 167-170: it runs once, before any request is served.
load_models(p) ==
    /\ pc[p] = "idle"
    /\ p = 1
    /\ \A q \in Callers : op[q] = "none"
    /\ op' = [op EXCEPT ![p] = "startup"]
    /\ sawFail' = [sawFail EXCEPT ![p] = loadFailed]
    /\ Goto(p, "initialize")
    /\ UNCHANGED <<env, engineVars, hi, historyVars, normVars>>

\* perform_ocr, lines 177-190: the upload is decoded and predict is called, or
\* the decoding raises and the request ends with a 500 (lines 225-226).
\* Requests are numbered in the order they arrive; none is served while the
\* startup hook runs.
perform_ocr(p) ==
    /\ pc[p] = "idle"
    /\ \A q \in Callers : op[q] = "startup" => pc[q] = "done"
    /\ \A q \in Callers : q < p => op[q] # "none"
    /\ op' = [op EXCEPT ![p] = "ocr"]
    /\ sawFail' = [sawFail EXCEPT ![p] = loadFailed]
    /\ \/ Goto(p, "initialize") /\ UNCHANGED settled
       \/ Finish(p, "decode_error")
    /\ UNCHANGED <<env, engineVars, hi, calls, loadFailed, normVars>>

\* initialize, lines 36-41, reached from ensure_models_loaded, line 107.
initialize(p) ==
    /\ pc[p] = "initialize"
    /\ IF AlreadyInitialized
       THEN Goto(p, "ensure") /\ UNCHANGED <<loadFailed, settled>>
       ELSE IF env.probe = "raises"
       THEN RaiseLoad(p, {"probe"})
       ELSE /\ Goto(p, IF ModernSpecFound THEN "init_modern" ELSE "init_legacy")
            /\ UNCHANGED <<loadFailed, settled>>
    /\ UNCHANGED <<env, engineVars, op, hi, sawFail, calls, normVars>>

\* Mutant of init_modern: the exception of the modern construction is not kept.
init_modern_silent(p) ==
    /\ pc[p] = "init_modern"
    /\ IF ~env.imports
       THEN /\ Goto(p, "init_legacy")
            /\ UNCHANGED <<det_predictor, rec_predictor, task_name, mode, calls>>
       ELSE /\ Count("load_predictors")
            /\ \/ /\ det_predictor' = TRUE
                  /\ rec_predictor' = TRUE
                  /\ task_name' = TRUE
                  /\ mode' = "modern"
                  /\ Goto(p, "set_initialized")
               \/ /\ Goto(p, "init_legacy")
                  /\ UNCHANGED <<det_predictor, rec_predictor, task_name, mode>>
    /\ UNCHANGED <<env, initialized, entry, handle, modern_error, op, hi, sawFail, loadFailed,
                   settled, normVars>>

\* _init_modern, lines 52-68, inside the try of lines 42-47: an import of
\* lines 53-54 raises; or load_predictors is called and raises; or it returns
\* and the predictors are stored.  An exception is kept in modern_error
\* (line 47) and initialize goes on to _init_legacy.
init_modern(p) ==
    /\ pc[p] = "init_modern"
    /\ IF ~env.imports
       THEN /\ modern_error' = TRUE
            /\ Goto(p, "init_legacy")
            /\ UNCHANGED <<det_predictor, rec_predictor, task_name, mode, calls>>
       ELSE /\ Count("load_predictors")
            /\ \/ /\ det_predictor' = TRUE
                  /\ rec_predictor' = TRUE
                  /\ task_name' = TRUE
                  /\ mode' = "modern"
                  /\ Goto(p, "set_initialized")
                  /\ UNCHANGED modern_error
               \/ /\ modern_error' = TRUE
                  /\ Goto(p, "init_legacy")
                  /\ UNCHANGED <<det_predictor, rec_predictor, task_name, mode>>
    /\ UNCHANGED <<env, initialized, entry, handle, op, hi, sawFail, loadFailed, settled,
                   normVars>>

\* _init_legacy, lines 70-104.  An import error that is not a
\* ModuleNotFoundError leaves the loop as it is (line 88 does not catch it);
\* when no namespace imports, the RuntimeError of lines 92-96 is raised from
\* the last import error and names the modern error if there is one.
init_legacy(p) ==
    /\ pc[p] = "init_legacy"
    /\ Count("import_legacy")
    /\ LET package == ProbeLegacy(1)
           modules == ImportLoop(1, [i \in 1..Len(LegacyModules) |-> None])
       IN
       IF package = "error"
       THEN /\ RaiseLoad(p, {"legacy"})
            /\ UNCHANGED <<entry, mode>>
       ELSE IF package = None
       THEN /\ RaiseLoad(p, {"legacy"} \cup (IF modern_error THEN {"modern"} ELSE {}))
            /\ UNCHANGED <<entry, mode>>
       ELSE /\ entry' = [x \in EntryPoints |-> modules[ModuleOf[x]]]
            /\ mode' = "legacy"
            /\ Goto(p, "set_initialized")
            /\ UNCHANGED <<loadFailed, settled>>
    /\ UNCHANGED <<env, initialized, det_predictor, rec_predictor, task_name, handle,
                   modern_error, op, hi, sawFail, normVars>>

\* initialize, line 44 or line 50.
set_initialized(p) ==
    /\ pc[p] = "set_initialized"
    /\ initialized' = TRUE
    /\ Goto(p, "ensure")
    /\ UNCHANGED <<env, mode, det_predictor, rec_predictor, task_name, entry, handle,
                   modern_error, op, hi, sawFail, historyVars, normVars>>

\* What follows a successful ensure_models_loaded: the startup hook is done
\* (line 171), predict goes on to inference (line 127).
Loaded(p) ==
    IF op[p] = "startup"
    THEN Finish(p, "startup_ok")
    ELSE Goto(p, "predict") /\ UNCHANGED settled

\* ensure_models_loaded, line 109: the first test of self.mode.
ensure(p) ==
    /\ pc[p] = "ensure"
    /\ IF mode = "legacy"
       THEN Goto(p, "check") /\ hi' = [hi EXCEPT ![p] = 1]
       ELSE Goto(p, "ensure_elif") /\ UNCHANGED hi
    /\ UNCHANGED <<env, engineVars, op, sawFail, historyVars, normVars>>

\* ensure_models_loaded, lines 118-122: the second test of self.mode.
ensure_elif(p) ==
    /\ pc[p] = "ensure_elif"
    /\ IF mode = "modern"
       THEN Loaded(p) /\ UNCHANGED loadFailed
       ELSE RaiseLoad(p, {"not_initialized"})
    /\ UNCHANGED <<env, engineVars, op, hi, sawFail, calls, normVars>>

\* ensure_models_loaded, lines 110, 112, 114, 116: "if self.<handle> is None".
check_handle(p) ==
    /\ pc[p] = "check"
    /\ IF ~handle[hi[p]]
       THEN Goto(p, "load") /\ UNCHANGED <<hi, settled>>
       ELSE IF hi[p] < Len(Handles)
       THEN Goto(p, "check") /\ hi' = [hi EXCEPT ![p] = @ + 1] /\ UNCHANGED settled
       ELSE Loaded(p) /\ UNCHANGED hi
    /\ UNCHANGED <<env, engineVars, op, sawFail, calls, loadFailed, normVars>>

\* Mutant of load_handle: a loader that raises drops the handles loaded so far.
load_handle_dropping(p) ==
    /\ pc[p] = "load"
    /\ Count(LoaderOf[hi[p]])
    /\ \/ /\ handle' = [handle EXCEPT ![hi[p]] = TRUE]
          /\ Goto(p, "check")
          /\ UNCHANGED <<loadFailed, settled>>
       \/ /\ RaiseLoad(p, {"legacy"})
          /\ handle' = [i \in 1..Len(Handles) |-> FALSE]
    /\ UNCHANGED <<env, initialized, mode, det_predictor, rec_predictor, task_name, entry,
                   modern_error, op, hi, sawFail, normVars>>

\* ensure_models_loaded, lines 111, 113, 115, 117: the loader is called and
\* its result stored, or it raises.
load_handle(p) ==
    /\ pc[p] = "load"
    /\ Count(LoaderOf[hi[p]])
    /\ \/ /\ handle' = [handle EXCEPT ![hi[p]] = TRUE]
          /\ Goto(p, "check")
          /\ UNCHANGED <<loadFailed, settled>>
       \/ /\ RaiseLoad(p, {"legacy"})
          /\ UNCHANGED handle
    /\ UNCHANGED <<env, initialized, mode, det_predictor, rec_predictor, task_name, entry,
                   modern_error, op, hi, sawFail, normVars>>

\* Mutant of predict: a failed inference drops the engine's initialization.
predict_resetting(p) ==
    /\ pc[p] = "predict"
    /\ LET api == IF mode = "modern" THEN "rec_predictor" ELSE "run_ocr" IN
       \/ End(p, "ok", {}, api) /\ UNCHANGED <<initialized, mode>>
       \/ /\ End(p, "inference_error", {"inference"}, api)
          /\ initialized' = FALSE
          /\ mode' = None
    /\ UNCHANGED <<env, det_predictor, rec_predictor, task_name, entry, handle, modern_error,
                   op, hi, sawFail, calls, loadFailed, normVars>>

\* predict, lines 127-143, and the rest of perform_ocr: self.mode is read
\* (line 127) and the predictor or run_ocr is called with the handles as they
\* are; the backend returns a result, which is normalised (NormSpec), or
\* raises (lines 225-226).
predict(p) ==
    /\ pc[p] = "predict"
    /\ LET api == IF mode = "modern" THEN "rec_predictor" ELSE "run_ocr" IN
       \/ End(p, "ok", {}, api)
       \/ End(p, "inference_error", {"inference"}, api)
    /\ UNCHANGED <<env, engineVars, op, hi, sawFail, calls, loadFailed, normVars>>

\* Mutant of health_check: the handler marks the engine initialized.
health_check_touching ==
    /\ health' = [status |-> IF ModelsReady THEN "healthy" ELSE "degraded",
                  models_loaded |-> ModelsReady]
    /\ outcome' = "none"
    /\ detail' = {}
    /\ invoked' = None
    /\ initialized' = TRUE
    /\ UNCHANGED <<env, mode, det_predictor, rec_predictor, task_name, entry, handle,
                   modern_error, callerVars, historyVars, normVars>>

\* health_check, lines 229-237.
health_check ==
    /\ health' = [status |-> IF ModelsReady THEN "healthy" ELSE "degraded",
                  models_loaded |-> ModelsReady]
    /\ outcome' = "none"
    /\ detail' = {}
    /\ invoked' = None
    /\ UNCHANGED <<env, engineVars, callerVars, historyVars, normVars>>

\* SuryaEngine.__init__, lines 16-34, and the module level of main.py.
Init ==
    /\ env \in Environments
    /\ initialized = FALSE
    /\ mode = None
    /\ det_predictor = FALSE
    /\ rec_predictor = FALSE
    /\ task_name = FALSE
    /\ entry = [x \in EntryPoints |-> None]
    /\ handle = [i \in 1..Len(Handles) |-> FALSE]
    /\ modern_error = FALSE
    /\ op = [p \in Callers |-> "none"]
    /\ pc = [p \in Callers |-> "idle"]
    /\ hi = [p \in Callers |-> 0]
    /\ sawFail = [p \in Callers |-> FALSE]
    /\ calls = [c \in Counted |-> 0]
    /\ loadFailed = FALSE
    /\ settled = FALSE
    /\ outcome = "none"
    /\ detail = {}
    /\ invoked = None
    /\ health = NoResponse
    /\ raw = NoRaw
    /\ resp = NoRaw

Next ==
    \/ \E p \in Callers : load_models(p)
    \/ \E p \in Callers : perform_ocr(p)
    \/ \E p \in Callers : initialize(p)
    \/ \E p \in Callers : init_modern(p)
    \/ \E p \in Callers : init_legacy(p)
    \/ \E p \in Callers : set_initialized(p)
    \/ \E p \in Callers : ensure(p)
    \/ \E p \in Callers : ensure_elif(p)
    \/ \E p \in Callers : check_handle(p)
    \/ \E p \in Callers : load_handle(p)
    \/ \E p \in Callers : predict(p)
    \/ health_check

Spec == Init /\ [][Next]_vars

\* Calls made one after the other: load_models and perform_ocr are coroutines
\* that call the engine without awaiting, so on one event loop a request
\* enters the engine only when no other call is in it.
perform_ocr_in_turn(p) ==
    /\ \A q \in Callers : pc[q] \in {"idle", "done"}
    /\ perform_ocr(p)

SeqNext ==
    \/ \E p \in Callers : load_models(p)
    \/ \E p \in Callers : perform_ocr_in_turn(p)
    \/ \E p \in Callers : initialize(p)
    \/ \E p \in Callers : init_modern(p)
    \/ \E p \in Callers : init_legacy(p)
    \/ \E p \in Callers : set_initialized(p)
    \/ \E p \in Callers : ensure(p)
    \/ \E p \in Callers : ensure_elif(p)
    \/ \E p \in Callers : check_handle(p)
    \/ \E p \in Callers : load_handle(p)
    \/ \E p \in Callers : predict(p)
    \/ health_check

SeqSpec == Init /\ [][SeqNext]_vars

(***************************************************************************)
(* Result normalisation of the /ocr handlers                               *)
(***************************************************************************)
\* The texts a backend returns for a line (sequences of characters).
Texts == {<<>>, <<"a">>, <<"b", "c">>}

\* The native confidences a backend returns, in hundredths.
Confidences == {70, 90}

\* getattr(text_line, "confidence", 0.85), in hundredths.
FallbackConfidence == 85

\* Pix2Text: "confidence = 0.85" and result.get('score', 0.85), in hundredths.
Pix2TextConfidence == 85

\* An optional field of a backend object: there with value v, or not there.
Opt(S, default) == {[has |-> TRUE, v |-> x] : x \in S} \cup {[has |-> FALSE, v |-> default]}

\* A bounding box: a list of corner points, or a flat list of numbers; the
\* empty list is the flat box with no numbers.
PointsBox == [tag |-> "points", pts |-> <<<<0, 0>>, <<10, 0>>, <<10, 5>>, <<0, 5>>>>, nums |-> <<>>]
FlatBox == [tag |-> "flat", pts |-> <<>>, nums |-> <<0, 0, 10, 5>>]
EmptyBox == [tag |-> "flat", pts |-> <<>>, nums |-> <<>>]
AbsentBox == [tag |-> "absent", pts |-> <<>>, nums |-> <<>>]

SeqsUpTo(S, n) == UNION {[1..k -> S] : k \in 0..n}

\* A Surya text line: text, confidence and bbox are read with getattr and a
\* default, so each may be missing.
SuryaLines == [text : Opt(Texts, <<>>), confidence : Opt(Confidences, 0),
               bbox : {PointsBox, FlatBox, AbsentBox}]

\* A PaddleOCR line [bbox, (text, confidence)]: the box is a list of corner
\* points (possibly empty).
PaddleLines == [text : Texts, confidence : Confidences, bbox : {PointsBox, EmptyBox}]

\* An item of a Pix2Text list result: a dict with optional 'text' and 'score',
\* or something that is not a dict.
Pix2TextDicts == [isdict : {TRUE}, text : Opt(Texts \ {<<>>}, <<>>), score : Opt({90}, 0)]
Pix2TextItems == Pix2TextDicts \cup {[isdict |-> FALSE, text |-> [has |-> FALSE, v |-> <<>>],
                                       score |-> [has |-> FALSE, v |-> 0]]}

NoItem == [isdict |-> FALSE, text |-> [has |-> FALSE, v |-> <<>>], score |-> [has |-> FALSE, v |-> 0]]

\* The raw results of the three backends.
\*   surya:     predictions is empty, or holds one prediction with text_lines
\*   paddleocr: result is falsy ("none"), result[0] is falsy ("page_none"),
\*              or result[0] is a list of lines
\*   pix2text:  a str, a list of items, a dict, or anything else (None)
SuryaRaw(n) ==
    {[engine |-> "surya", empty |-> TRUE, lines |-> <<>>]}
    \cup {[engine |-> "surya", empty |-> FALSE, lines |-> ls] : ls \in SeqsUpTo(SuryaLines, n)}
PaddleRaw(n) ==
    {[engine |-> "paddleocr", shape |-> sh, lines |-> <<>>] : sh \in {"none", "page_none"}}
    \cup {[engine |-> "paddleocr", shape |-> "lines", lines |-> ls] : ls \in SeqsUpTo(PaddleLines, n) \ {<<>>}}
Pix2TextRaw(n) ==
    {[engine |-> "pix2text", kind |-> "str", s |-> t, items |-> <<>>, d |-> NoItem] : t \in Texts}
    \cup {[engine |-> "pix2text", kind |-> "list", s |-> <<>>, items |-> is, d |-> NoItem] :
              is \in SeqsUpTo(Pix2TextItems, n)}
    \cup {[engine |-> "pix2text", kind |-> "dict", s |-> <<>>, items |-> <<>>, d |-> x] :
              x \in Pix2TextDicts}
    \cup {[engine |-> "pix2text", kind |-> "other", s |-> <<>>, items |-> <<>>, d |-> NoItem]}

\* No response has been computed yet.
Pending == [status |-> "pending"]

\* Mutant of JoinTexts: the texts are concatenated with no separator.
RECURSIVE JoinNoSeparator(_)
JoinNoSeparator(texts) ==
    IF texts = <<>> THEN <<>>
    ELSE Head(texts) \o JoinNoSeparator(Tail(texts))

\* " ".join(texts) if texts else "".
RECURSIVE JoinTexts(_)
JoinTexts(texts) ==
    IF texts = <<>> THEN <<>>
    ELSE IF Len(texts) = 1 THEN texts[1]
    ELSE texts[1] \o <<" ">> \o JoinTexts(Tail(texts))

\* sum(confidences).
RECURSIVE Sum(_)
Sum(xs) == IF xs = <<>> THEN 0 ELSE Head(xs) + Sum(Tail(xs))

\* sum(confidences) / len(confidences) if confidences else 0.0.
AvgConfidence(confidences) ==
    IF confidences = <<>> THEN [num |-> 0, den |-> 1]
    ELSE [num |-> Sum(confidences), den |-> Len(confidences)]

\* [float(coord) for point in bbox for coord in point].
RECURSIVE FlattenPoints(_)
FlattenPoints(pts) ==
    IF pts = <<>> THEN <<>> ELSE Head(pts) \o FlattenPoints(Tail(pts))

\* Surya perform_ocr, lines 199-210: one entry of lines_data.
SuryaLineEntry(l) ==
    [text |-> l.text.v,
     confidence |-> IF l.confidence.has THEN l.confidence.v ELSE FallbackConfidence,
     bbox |-> IF l.bbox.tag = "absent" THEN EmptyBox ELSE l.bbox]

\* Surya perform_ocr, lines 192-224.
SuryaResponse(r) ==
    LET entries == IF r.empty THEN <<>> ELSE [i \in 1..Len(r.lines) |-> SuryaLineEntry(r.lines[i])]
        texts == [i \in 1..Len(entries) |-> entries[i].text]
        confidences == [i \in 1..Len(entries) |-> entries[i].confidence]
    IN [status |-> "200", engine |-> "surya", text |-> JoinTexts(texts),
        confidence |-> AvgConfidence(confidences), lines |-> entries]

\* PaddleOCR perform_ocr, lines 61-69: one entry of bboxes.
PaddleLineEntry(l) ==
    [text |-> l.text, confidence |-> l.confidence,
     bbox |-> [tag |-> "flat", pts |-> <<>>, nums |-> FlattenPoints(l.bbox.pts)]]

\* PaddleOCR perform_ocr, lines 55-83.
PaddleResponse(r) ==
    LET entries == IF r.shape = "lines"
                   THEN [i \in 1..Len(r.lines) |-> PaddleLineEntry(r.lines[i])]
                   ELSE <<>>
        texts == [i \in 1..Len(entries) |-> entries[i].text]
        confidences == [i \in 1..Len(entries) |-> entries[i].confidence]
    IN [status |-> "200", engine |-> "paddleocr", text |-> JoinTexts(texts),
        confidence |-> AvgConfidence(confidences), lines |-> entries]

\* [item.get('text', '') for item in result if isinstance(item, dict)].
RECURSIVE DictTexts(_)
DictTexts(items) ==
    IF items = <<>> THEN <<>>
    ELSE IF Head(items).isdict THEN <<Head(items).text.v>> \o DictTexts(Tail(items))
    ELSE DictTexts(Tail(items))

\* Mutant of Pix2TextResponse: latex is left empty.
Pix2TextResponseNoLatex(r) ==
    LET text == IF r.kind = "str" THEN r.s
                ELSE IF r.kind = "list" THEN JoinTexts(DictTexts(r.items))
                ELSE IF r.kind = "dict" THEN r.d.text.v
                ELSE <<"N", "o", "n", "e">>
        confidence == IF r.kind = "dict" /\ r.d.score.has THEN r.d.score.v
                      ELSE Pix2TextConfidence
    IN [status |-> "200", engine |-> "pix2text", text |-> text, latex |-> <<>>,
        confidence |-> [num |-> confidence, den |-> 1]]

\* Pix2Text perform_ocr, lines 50-79.
Pix2TextResponse(r) ==
    LET text == IF r.kind = "str" THEN r.s
                ELSE IF r.kind = "list" THEN JoinTexts(DictTexts(r.items))
                ELSE IF r.kind = "dict" THEN r.d.text.v
                ELSE <<"N", "o", "n", "e">>
        confidence == IF r.kind = "dict" /\ r.d.score.has THEN r.d.score.v
                      ELSE Pix2TextConfidence
    IN [status |-> "200", engine |-> "pix2text", text |-> text, latex |-> text,
        confidence |-> [num |-> confidence, den |-> 1]]

\* The three /ocr handlers, from the backend's result to the response.
surya_normalize ==
    /\ raw.engine = "surya" /\ resp.status = "pending"
    /\ resp' = SuryaResponse(raw)
    /\ UNCHANGED <<env, engineVars, callerVars, historyVars, outVars, health, raw>>

paddle_normalize ==
    /\ raw.engine = "paddleocr" /\ resp.status = "pending"
    /\ resp' = PaddleResponse(raw)
    /\ UNCHANGED <<env, engineVars, callerVars, historyVars, outVars, health, raw>>

pix2text_normalize ==
    /\ raw.engine = "pix2text" /\ resp.status = "pending"
    /\ resp' = Pix2TextResponse(raw)
    /\ UNCHANGED <<env, engineVars, callerVars, historyVars, outVars, health, raw>>

NormInit ==
    /\ env = [probe |-> "present", imports |-> TRUE,
              ns |-> [c \in {"surya", "surya_ocr"} |-> "notfound"], partial |-> 0]
    /\ initialized = FALSE
    /\ mode = None
    /\ det_predictor = FALSE
    /\ rec_predictor = FALSE
    /\ task_name = FALSE
    /\ entry = [x \in EntryPoints |-> None]
    /\ handle = [i \in 1..Len(Handles) |-> FALSE]
    /\ modern_error = FALSE
    /\ op = [p \in Callers |-> "none"]
    /\ pc = [p \in Callers |-> "idle"]
    /\ hi = [p \in Callers |-> 0]
    /\ sawFail = [p \in Callers |-> FALSE]
    /\ calls = [c \in Counted |-> 0]
    /\ loadFailed = FALSE
    /\ settled = FALSE
    /\ outcome = "none"
    /\ detail = {}
    /\ invoked = None
    /\ health = NoResponse
    /\ raw \in SuryaRaw(MaxLines) \cup PaddleRaw(MaxLines) \cup Pix2TextRaw(MaxLines)
    /\ resp = Pending

NormNext == surya_normalize \/ paddle_normalize \/ pix2text_normalize

NormSpec == NormInit /\ [][NormNext]_vars

(***************************************************************************)
(* Claims about the normalisation (checked under NormSpec)                 *)
(***************************************************************************)
Answered == resp.status # "pending"

\* The raw result holds no line record.
ZeroLines ==
    \/ raw.engine = "surya" /\ raw.lines = <<>>
    \/ raw.engine = "paddleocr" /\ raw.lines = <<>>
    \/ raw.engine = "pix2text" /\ raw.kind = "list" /\ raw.items = <<>>

\* C7 (as claimed): a raw result with zero line records is answered with the
\* empty text and confidence 0.0, by the Surya, PaddleOCR and Pix2Text
\* handlers alike.
C7_ZeroLinesZeroConfidence ==
    (Answered /\ ZeroLines) =>
        /\ resp.status = "200"
        /\ resp.text = <<>>
        /\ resp.confidence.num = 0

\* The line records (ti, ci) of a Surya or PaddleOCR raw result in which every
\* line carries a text and a native confidence.
HasLineRecords ==
    /\ raw.engine \in {"surya", "paddleocr"}
    /\ Len(raw.lines) >= 1
    /\ raw.engine = "surya" =>
          \A i \in 1..Len(raw.lines) : raw.lines[i].text.has /\ raw.lines[i].confidence.has

LineText(i) == IF raw.engine = "surya" THEN raw.lines[i].text.v ELSE raw.lines[i].text
LineConfidence(i) ==
    IF raw.engine = "surya" THEN raw.lines[i].confidence.v ELSE raw.lines[i].confidence

\* Where the i-th text starts in the joined text: after the i-1 texts before
\* it and one separator for each.
RECURSIVE Offset(_)
Offset(i) == IF i = 1 THEN 0 ELSE Offset(i - 1) + Len(LineText(i - 1)) + 1

\* c1 + .. + ck.
RECURSIVE Total(_)
Total(k) == IF k = 0 THEN 0 ELSE Total(k - 1) + LineConfidence(k)

\* C8: for n >= 1 line records (t1,c1)..(tn,cn) the Surya and PaddleOCR
\* responses carry the texts in the returned order, each followed by exactly
\* one space except the last, and nothing else; the confidence (c1+..+cn)/n;
\* and n line entries, the i-th with ti and ci.
C8_JoinAndMean ==
    (Answered /\ HasLineRecords) =>
        LET n == Len(raw.lines) IN
        /\ resp.status = "200"
        /\ Len(resp.text) = Offset(n) + Len(LineText(n))
        /\ \A i \in 1..n :
              SubSeq(resp.text, Offset(i) + 1, Offset(i) + Len(LineText(i))) = LineText(i)
        /\ \A i \in 1..(n - 1) : resp.text[Offset(i + 1)] = " "
        /\ resp.confidence.den = n
        /\ resp.confidence.num = Total(n)
        /\ Len(resp.lines) = n
        /\ \A i \in 1..n : /\ resp.lines[i].text = LineText(i)
                           /\ resp.lines[i].confidence = LineConfidence(i)

\* C8 witness: a PaddleOCR result of two lines with different texts and
\* confidences has been answered.
C8_Witness ==
    /\ Answered /\ raw.engine = "paddleocr" /\ Len(raw.lines) = 2
    /\ raw.lines[1].text = <<"b", "c">> /\ raw.lines[2].text = <<"a">>
    /\ raw.lines[1].confidence # raw.lines[2].confidence

\* C9 (as claimed): a line record without a native confidence is reported
\* with 0.85, one with a native confidence with that value, in its line entry
\* and in the mean, for every engine: Surya text lines, a Pix2Text dict result,
\* and the items of a Pix2Text list result.
C9_FallbackConfidence ==
    /\ (Answered /\ raw.engine = "surya" /\ ~raw.empty) =>
          /\ Len(resp.lines) = Len(raw.lines)
          /\ \A i \in 1..Len(raw.lines) :
                resp.lines[i].confidence =
                    (IF raw.lines[i].confidence.has THEN raw.lines[i].confidence.v ELSE 85)
    /\ (Answered /\ raw.engine = "pix2text" /\ raw.kind = "dict") =>
          resp.confidence.num = (IF raw.d.score.has THEN raw.d.score.v ELSE 85) * resp.confidence.den
    /\ (Answered /\ raw.engine = "pix2text" /\ raw.kind = "list" /\ Len(raw.items) = 1
           /\ raw.items[1].isdict) =>
          resp.confidence.num =
              (IF raw.items[1].score.has THEN raw.items[1].score.v ELSE 85) * resp.confidence.den

\* The flat sequence x1, y1, x2, y2, .. of a box: that of its corner points
\* in order, the box itself when it is flat, empty when there is none.
IsFlatOf(nums, box) ==
    IF box.tag = "points"
    THEN /\ Len(nums) = 2 * Len(box.pts)
         /\ \A k \in 1..Len(box.pts) : nums[2 * k - 1] = box.pts[k][1] /\ nums[2 * k] = box.pts[k][2]
    ELSE IF box.tag = "flat" THEN nums = box.nums
    ELSE nums = <<>>

\* C10 (as claimed): in every Surya and PaddleOCR response the bbox of each
\* line is one flat sequence of numbers: the corner points flattened in order,
\* a flat box unchanged, an absent box empty.
C10_FlatBoundingBox ==
    (Answered /\ raw.engine \in {"surya", "paddleocr"}) =>
        /\ resp.status = "200"
        /\ \A i \in 1..Len(raw.lines) :
              /\ i <= Len(resp.lines)
              /\ resp.lines[i].bbox.tag = "flat"
              /\ IsFlatOf(resp.lines[i].bbox.nums, raw.lines[i].bbox)

\* C13: a Pix2Text result that is a bare string s is answered with text s,
\* latex s and confidence 0.85.
C13_BareString ==
    (Answered /\ raw.engine = "pix2text" /\ raw.kind = "str") =>
        /\ resp.status = "200"
        /\ resp.text = raw.s
        /\ resp.latex = raw.s
        /\ resp.confidence.num = 85 * resp.confidence.den

\* C13 witness: a bare string of two characters has been answered.
C13_Witness ==
    Answered /\ raw.engine = "pix2text" /\ raw.kind = "str" /\ raw.s = <<"b", "c">>

(***************************************************************************)
(* Claims about the Surya engine (checked under Spec)                      *)
(***************************************************************************)
\* ensure_models_loaded has returned normally to caller p.
EnsureReturned(p) == pc[p] = "predict" \/ (op[p] = "startup" /\ outcome = "startup_ok")

C2_NoReloadAfterFailure ==
    [][\A p \in Callers : (sawFail[p] /\ pc'[p] # pc[p]) =>
            \A c \in Counted : calls'[c] = calls[c]]_vars

\* C3: once the engine has been ready with no call in flight, no later step
\* of any initialize / ensure_models_loaded / predict call constructs a model
\* or runs the legacy imports: every count keeps its value.
C3_ReadyNoConstruction ==
    [][settled => \A c \in Counted : calls'[c] = calls[c]]_vars

\* C3 witness: a call that began after the engine had settled has passed
\* ensure_models_loaded.
C3_Witness == settled /\ \E p \in Callers : pc[p] = "predict"

\* C4: a step that answers /health leaves every field of the engine and every
\* load count unchanged, so a health check made before any other call finds
\* and leaves all counts at 0.
C4_HealthReadOnly ==
    [][health' # NoResponse =>
          /\ UNCHANGED <<engineVars, calls>>
          /\ (\A p \in Callers : op[p] = "none") => \A c \in Counted : calls'[c] = 0]_vars

\* C4 witness: /health answered before any call was made on the engine.
C4_Witness ==
    /\ health.status = "degraded"
    /\ \A p \in Callers : op[p] = "none"
    /\ \A c \in Counted : calls[c] = 0

\* The handles the selected variant requires are all there.
RequiredHandlesPresent ==
    \/ mode = "modern" /\ det_predictor /\ rec_predictor
    \/ mode = "legacy" /\ handle[1] /\ handle[2] /\ handle[3] /\ handle[4]

\* C5: a /health response is 'healthy' with models_loaded true exactly when
\* the variant is selected and all its handles are non-null, else 'degraded'
\* with models_loaded false.
C5_HealthyIffReady ==
    health # NoResponse =>
        /\ health.status = (IF RequiredHandlesPresent THEN "healthy" ELSE "degraded")
        /\ health.models_loaded = RequiredHandlesPresent

\* C5 witness: /health answered on a legacy engine with some handles loaded.
C5_Witness ==
    health.status = "degraded" /\ mode = "legacy" /\ handle[1] /\ ~handle[4]

\* C6: where the probe finds no modern surface, _init_modern is never entered
\* and load_predictors never called, and whenever ensure_models_loaded has
\* returned the engine is in legacy mode with models_ready true.
C6_LegacyFallback ==
    env.probe = "absent" =>
        /\ calls["load_predictors"] = 0
        /\ ~modern_error
        /\ \A p \in Callers : pc[p] # "init_modern"
        /\ \A p \in Callers : EnsureReturned(p) => (mode = "legacy" /\ ModelsReady)

\* C6 witness: the startup hook loaded the legacy models with no modern surface.
C6_Witness ==
    env.probe = "absent" /\ outcome = "startup_ok"

\* C11: the step in which a /ocr request fails in the image decoding or in the
\* inference leaves every field of the engine unchanged; and on an engine that
\* has been ready with no call in flight, every step of a /ocr request leaves
\* the engine's fields and the load counts unchanged and models_ready true.
C11_RequestErrorsKeepEngine ==
    [][/\ outcome' \in {"decode_error", "inference_error"} => UNCHANGED engineVars
       /\ (settled /\ \E p \in Callers : op'[p] = "ocr" /\ pc'[p] # pc[p]) =>
              /\ UNCHANGED <<engineVars, calls>>
              /\ ModelsReady']_vars

\* C11 witness: a request failed in the inference on an engine that was ready.
C11_Witness == settled /\ ModelsReady /\ outcome = "inference_error"

\* The startup hook ran into a load error and no request has arrived yet.
StartupFailedOnly ==
    /\ op[1] = "startup"
    /\ loadFailed
    /\ \A q \in Callers \ {1} : op[q] = "none"

\* C12: when loading fails in the startup hook, the hook ends (the exception
\* is logged, not raised), a /ocr request can be served afterwards, /health
\* answers 'degraded' with models_loaded false, and it answers 'healthy' only
\* once the selected variant's models have all been constructed.
C12_StartupFailureDegrades ==
    /\ StartupFailedOnly =>
          /\ pc[1] = "done"
          /\ ~ModelsReady
          /\ \E q \in Callers : ENABLED perform_ocr(q)
          /\ health # NoResponse => (health.status = "degraded" /\ ~health.models_loaded)
    /\ health.status = "healthy" =>
          \/ mode = "modern" /\ calls["load_predictors"] >= 1
          \/ mode = "legacy" /\ \A i \in 1..Len(LoaderOf) : calls[LoaderOf[i]] >= 1

\* C12 witness: /health answered after the startup hook failed in a legacy
\* loader.
C12_Witness ==
    StartupFailedOnly /\ health.status = "degraded" /\ mode = "legacy" /\ handle[1]

\* C14 (as claimed): the probe of the modern surface never raises; where the
\* introspection fails, initialization goes on to the legacy import loop, so
\* no load fails there before the legacy namespaces have been tried.
C14_ProbeNeverRaises ==
    /\ "probe" \notin detail
    /\ (env.probe = "raises" /\ loadFailed) => calls["import_legacy"] >= 1

\* C15 (as claimed): when initialization fails because the legacy path fails
\* (no namespace imports, an import raises another error, or a loader raises),
\* the exception surfaced refers to the legacy error and, if the modern
\* construction was attempted and threw, to the modern error as well.
C15_CompositeError ==
    (outcome \in {"load_error", "startup_warned"} /\ "legacy" \in detail) =>
        (modern_error => "modern" \in detail)

\* C16: within an initialize call, modern construction is entered only from
\* the probe and is what follows a probe that finds the modern surface; the
\* legacy import loop is entered only after a probe that finds no modern
\* surface or after a modern construction that threw and left modern_error
\* set; a modern construction that did not throw leaves mode 'modern' and is
\* followed by initialized = True, not by the legacy loop; and a legacy engine
\* in an environment with the modern surface has modern_error set.
C16_ModernBeforeLegacy ==
    [][/\ \A p \in Callers :
             /\ (pc[p] = "initialize" /\ pc'[p] # pc[p] /\ ~initialized /\ env.probe = "present")
                    => pc'[p] = "init_modern"
             /\ (pc'[p] = "init_modern" /\ pc[p] # "init_modern")
                    => (pc[p] = "initialize" /\ env.probe = "present")
             /\ (pc'[p] = "init_legacy" /\ pc[p] # "init_legacy")
                    => \/ pc[p] = "initialize" /\ env.probe = "absent"
                       \/ pc[p] = "init_modern" /\ env.probe = "present" /\ modern_error'
                             /\ mode' = mode
             /\ (pc[p] = "init_modern" /\ pc'[p] \notin {"init_modern", "init_legacy"})
                    => (pc'[p] = "set_initialized" /\ mode' = "modern")
       /\ calls'["import_legacy"] > calls["import_legacy"]
              => \E p \in Callers : pc[p] = "init_legacy" /\ pc'[p] # pc[p]
       /\ (mode' = "legacy" /\ env.probe = "present") => modern_error']_vars

\* C16 witness: load_predictors was called and threw, and the engine went on
\* to legacy mode.
C16_Witness ==
    mode = "legacy" /\ env.probe = "present" /\ modern_error /\ calls["load_predictors"] >= 1

\* C17: the five entry points stored on the engine all come from one
\* namespace, whose five modules all import, and it is 'surya_ocr' only where
\* 'surya' lacks a module.
C17_SingleNamespace ==
    (mode = "legacy" \/ \E x \in EntryPoints : entry[x] # None) =>
        \E c \in {"surya", "surya_ocr"} :
            /\ \A x \in EntryPoints : entry[x] = c
            /\ env.ns[c] = "ok"
            /\ c = "surya_ocr" => env.ns["surya"] = "notfound"

\* C17 witness: 'surya' imported two of its modules before one was not found,
\* and the entry points were taken from 'surya_ocr'.
C17_Witness ==
    env.partial = 2 /\ mode = "legacy" /\ entry["run_ocr"] = "surya_ocr"

C20_LegacyResume ==
    [][\A i \in 1..Len(Handles) :
          /\ handle[i] => handle'[i]
          /\ calls'[LoaderOf[i]] # calls[LoaderOf[i]] =>
                /\ calls'[LoaderOf[i]] = calls[LoaderOf[i]] + 1
                /\ ~handle[i]
                /\ \A j \in 1..(i - 1) : handle[j]
          /\ (handle'[i] /\ ~handle[i]) =>
                /\ calls'[LoaderOf[i]] = calls[LoaderOf[i]] + 1
                /\ \A j \in 1..(i - 1) : handle[j]]_vars

\* C20 witness: the second loader raised in an earlier call, and a later call
\* has skipped the first handle and is about to call the second loader again.
C20_Witness ==
    /\ loadFailed /\ handle[1] /\ ~handle[2]
    /\ calls["load_det_model"] = 1 /\ calls["load_det_processor"] = 1
    /\ \E p \in Callers : op[p] = "ocr" /\ pc[p] = "load" /\ hi[p] = 2

=============================================================================
